---- MODULE Spec2Model ----
(***************************************************************************)
(* Model of network_documentation.py: the organization walk, the          *)
(* per-account orchestrator with its eight resource collectors, and the   *)
(* single upload of the aggregated document.                              *)
(*                                                                         *)
(* The cloud provider is the environment.  Every provider call either     *)
(* answers or raises; the number of calls that raise in one run is        *)
(* bounded by MaxFaults.  The with statement of line 34 may raise when it *)
(* is entered (constructing or entering the session); leaving it is taken *)
(* not to raise.  A session may also open and then refuse every call made *)
(* through it (region not enabled, credentials rejected).                 *)
(***************************************************************************)
EXTENDS Integers, Sequences, FiniteSets, TLC

\* ---------------------------------------------------------------- bounds
MaxFaults == 2

\* ----------------------------------------------------------- environment
Accounts == {"111", "222"}
RootId == "r-root"
Parents == {"r-root", "ou-1", "ou-2", "ou-sub"}
OuLists == {<<>>, <<"ou-1">>, <<"ou-2", "ou-1">>}
RegionLists == {<<>>, <<"us-east-1">>, <<"us-east-1", "eu-west-1">>}

ResourceTypes ==
    <<"vpcs", "subnets", "security_groups", "network_acls", "route_tables",
      "vpc_endpoints", "vpc_peering_connections", "load_balancers">>

Range(s) == {s[k] : k \in DOMAIN s}

\* sequences over S without repetition
SeqNoDup(S) ==
    UNION {{s \in [1..n -> S] : \A a, b \in 1..n : a # b => s[a] # s[b]} :
           n \in 0..Cardinality(S)}

\* list_accounts_for_parent answers: every account has exactly one parent
AcctListings ==
    {f \in [Parents -> SeqNoDup(Accounts)] :
        /\ \A p, q \in Parents : p # q => Range(f[p]) \cap Range(f[q]) = {}
        /\ UNION {Range(f[p]) : p \in Parents} = Accounts}

\* resources present in the cloud: opaque provider records
Cloud(account, region, type) ==
    IF \/ type \in {"vpcs", "subnets", "load_balancers"} /\ region = "us-east-1"
       \/ type \in {"vpcs", "route_tables"} /\ region = "eu-west-1" /\ account = "222"
    THEN <<[Kind |-> type, Owner |-> account, Region |-> region]>>
    ELSE <<>>

\* ------------------------------------------------------------ dictionaries
EmptyMap == <<>>
Put(m, k, v) == [x \in (DOMAIN m) \cup {k} |-> IF x = k THEN v ELSE m[x]]

VARIABLES
    org,            \* the organization: OU listing and account listing per parent
    enabledRegions, \* what describe_regions answers
    faultsLeft,     \* provider calls that may still raise
    pc,             \* position of the single thread of control
    root_id, ous, accounts,         \* main's locals
    documentation, i,               \* main's aggregate and loop position
    account_info, regions, r,       \* get_account_documentation's locals
    session, region_info, t,        \* the regional session and its mapping
    storeCalls, storeArg,           \* calls of store_documentation and its argument
    credsOf,        \* history: outcome of get_credentials per account
    discovered,     \* history: answer of get_available_regions per account
    faultAt,        \* history: fault caught by line 50 per account
    returned        \* history: outcome of each collector call

vars == <<org, enabledRegions, faultsLeft, pc, root_id, ous, accounts,
          documentation, i, account_info, regions, r, session, region_info, t,
          storeCalls, storeArg, credsOf, discovered, faultAt, returned>>

envVars == <<org, enabledRegions>>
walkVars == <<root_id, ous, accounts>>
acctVars == <<account_info, regions, r>>
regionVars == <<session, region_info, t>>
storeVars == <<storeCalls, storeArg>>
histVars == <<credsOf, discovered, faultAt, returned>>

Init ==
    /\ org \in {[ous |-> [p \in Parents |-> IF p = RootId THEN l ELSE <<>>],
                  accts |-> f] : l \in OuLists, f \in AcctListings}
    /\ enabledRegions \in RegionLists
    /\ faultsLeft = MaxFaults
    /\ pc = "get_root_id"
    /\ root_id = "" /\ ous = <<>> /\ accounts = <<>>
    /\ documentation = EmptyMap /\ i = 0
    /\ account_info = EmptyMap /\ regions = <<>> /\ r = 0
    /\ session = "none" /\ region_info = EmptyMap /\ t = 0
    /\ storeCalls = 0 /\ storeArg = EmptyMap
    /\ credsOf = EmptyMap /\ discovered = EmptyMap
    /\ faultAt = EmptyMap /\ returned = EmptyMap

\* an unhandled fault leaves main: the process terminates
Crash ==
    /\ faultsLeft > 0
    /\ faultsLeft' = faultsLeft - 1
    /\ pc' = "crashed"

\* ------------------------------------------------------ organization walk
get_root_id ==
    /\ pc = "get_root_id"
    /\ \/ /\ root_id' = RootId
          /\ pc' = "get_ous"
          /\ UNCHANGED faultsLeft
       \/ Crash /\ UNCHANGED root_id
    /\ UNCHANGED <<envVars, ous, accounts, documentation, i, acctVars,
                   regionVars, storeVars, histVars>>

get_ous ==
    /\ pc = "get_ous"
    /\ \/ /\ ous' = org.ous[root_id]
          /\ pc' = "get_accounts"
          /\ UNCHANGED faultsLeft
       \/ Crash /\ UNCHANGED ous
    /\ UNCHANGED <<envVars, root_id, accounts, documentation, i, acctVars,
                   regionVars, storeVars, histVars>>

\* variant: the walk also lists the accounts directly under the root
AccountsOf_withRoot(ouSeq) ==
    LET RECURSIVE Walk(_)
        Walk(q) == IF q = <<>> THEN <<>> ELSE org.accts[Head(q)] \o Walk(Tail(q))
    IN  org.accts[RootId] \o Walk(ouSeq)

RECURSIVE AccountsOf(_)
AccountsOf(ouSeq) ==
    IF ouSeq = <<>> THEN <<>>
    ELSE org.accts[Head(ouSeq)] \o AccountsOf(Tail(ouSeq))

get_accounts ==
    /\ pc = "get_accounts"
    /\ \/ /\ accounts' = AccountsOf(ous)
          /\ documentation' = EmptyMap
          /\ i' = 1
          /\ pc' = "main_loop"
          /\ UNCHANGED faultsLeft
       \/ /\ ous # <<>>
          /\ Crash
          /\ UNCHANGED <<accounts, documentation, i>>
    /\ UNCHANGED <<envVars, root_id, ous, acctVars, regionVars, storeVars,
                   histVars>>

\* ------------------------------------------------------------------- main
account == accounts[i]

\* variant: the upload sits inside the loop body, after the first account
main_loop_earlyStore ==
    /\ pc = "main_loop"
    /\ IF i <= Len(accounts) /\ i <= 1
       THEN /\ account_info' = EmptyMap
            /\ pc' = "get_credentials"
       ELSE /\ pc' = "store"
            /\ UNCHANGED account_info
    /\ UNCHANGED <<envVars, faultsLeft, walkVars, documentation, i, regions, r,
                   regionVars, storeVars, histVars>>

\* variant: nothing is uploaded when there is no account
main_loop_skipEmpty ==
    /\ pc = "main_loop"
    /\ IF i <= Len(accounts)
       THEN /\ account_info' = EmptyMap
            /\ pc' = "get_credentials"
       ELSE /\ pc' = IF accounts = <<>> THEN "done" ELSE "store"
            /\ UNCHANGED account_info
    /\ UNCHANGED <<envVars, faultsLeft, walkVars, documentation, i, regions, r,
                   regionVars, storeVars, histVars>>

main_loop ==
    /\ pc = "main_loop"
    /\ IF i <= Len(accounts)
       THEN /\ account_info' = EmptyMap
            /\ pc' = "get_credentials"
       ELSE /\ pc' = "store"
            /\ UNCHANGED account_info
    /\ UNCHANGED <<envVars, faultsLeft, walkVars, documentation, i, regions, r,
                   regionVars, storeVars, histVars>>

\* variant: main keeps only the accounts that produced something
ReturnAccountInfo_dropEmpty ==
    /\ documentation' = IF DOMAIN account_info = {} THEN documentation
                        ELSE Put(documentation, account, account_info)
    /\ i' = i + 1
    /\ pc' = "main_loop"

\* get_account_documentation returns account_info; main stores it under the id
ReturnAccountInfo ==
    /\ documentation' = Put(documentation, account, account_info)
    /\ i' = i + 1
    /\ pc' = "main_loop"

\* variant: the absent-credentials signal is not tested
get_credentials_noCheck ==
    /\ pc = "get_credentials"
    /\ \/ /\ credsOf' = Put(credsOf, account, "ok")
          /\ UNCHANGED faultsLeft
       \/ /\ faultsLeft > 0
          /\ faultsLeft' = faultsLeft - 1
          /\ credsOf' = Put(credsOf, account, "absent")
    /\ pc' = "get_available_regions"
    /\ UNCHANGED <<envVars, walkVars, documentation, i, acctVars, regionVars,
                   storeVars, discovered, faultAt, returned>>

get_credentials ==
    /\ pc = "get_credentials"
    /\ \/ /\ credsOf' = Put(credsOf, account, "ok")
          /\ pc' = "get_available_regions"
          /\ UNCHANGED <<faultsLeft, documentation, i>>
       \/ /\ faultsLeft > 0
          /\ faultsLeft' = faultsLeft - 1
          /\ credsOf' = Put(credsOf, account, "absent")
          /\ ReturnAccountInfo
    /\ UNCHANGED <<envVars, walkVars, acctVars, regionVars, storeVars,
                   discovered, faultAt, returned>>

\* variant: the region enumerator is called outside the try block
get_available_regions_uncaught ==
    /\ pc = "get_available_regions"
    /\ \/ /\ regions' = enabledRegions
          /\ r' = 1
          /\ discovered' = Put(discovered, account, enabledRegions)
          /\ pc' = "region_loop"
          /\ UNCHANGED <<faultsLeft, faultAt>>
       \/ /\ Crash
          /\ faultAt' = Put(faultAt, account, [kind |-> "regions", k |-> 0])
          /\ UNCHANGED <<regions, r, discovered>>
    /\ UNCHANGED <<envVars, walkVars, documentation, i, account_info,
                   regionVars, storeVars, credsOf, returned>>

get_available_regions ==
    /\ pc = "get_available_regions"
    /\ \/ /\ regions' = enabledRegions
          /\ r' = 1
          /\ discovered' = Put(discovered, account, enabledRegions)
          /\ pc' = "region_loop"
          /\ UNCHANGED <<faultsLeft, documentation, i, faultAt>>
       \/ /\ faultsLeft > 0
          /\ faultsLeft' = faultsLeft - 1
          /\ faultAt' = Put(faultAt, account, [kind |-> "regions", k |-> 0])
          /\ ReturnAccountInfo
          /\ UNCHANGED <<regions, r, discovered>>
    /\ UNCHANGED <<envVars, walkVars, account_info, regionVars, storeVars,
                   credsOf, returned>>

region_loop ==
    /\ pc = "region_loop"
    /\ IF r <= Len(regions)
       THEN /\ pc' = "open_session"
            /\ UNCHANGED <<documentation, i>>
       ELSE ReturnAccountInfo
    /\ UNCHANGED <<envVars, faultsLeft, walkVars, acctVars, regionVars,
                   storeVars, histVars>>

region == regions[r]

\* variant: no handler around the per-account work
open_session_uncaught ==
    /\ pc = "open_session"
    /\ \/ /\ session' = "usable"
          /\ region_info' = EmptyMap
          /\ t' = 1
          /\ pc' = "collect"
          /\ UNCHANGED <<faultsLeft, faultAt>>
       \/ /\ faultsLeft > 0
          /\ faultsLeft' = faultsLeft - 1
          /\ session' = "unusable"
          /\ region_info' = EmptyMap
          /\ t' = 1
          /\ pc' = "collect"
          /\ UNCHANGED faultAt
       \/ /\ Crash
          /\ faultAt' = Put(faultAt, account, [kind |-> "session", k |-> r])
          /\ UNCHANGED <<session, region_info, t>>
    /\ UNCHANGED <<envVars, walkVars, documentation, i, acctVars, storeVars,
                   credsOf, discovered, returned>>

open_session ==
    /\ pc = "open_session"
    /\ \/ /\ session' = "usable"
          /\ region_info' = EmptyMap
          /\ t' = 1
          /\ pc' = "collect"
          /\ UNCHANGED <<faultsLeft, documentation, i, faultAt>>
       \/ /\ faultsLeft > 0
          /\ faultsLeft' = faultsLeft - 1
          /\ session' = "unusable"
          /\ region_info' = EmptyMap
          /\ t' = 1
          /\ pc' = "collect"
          /\ UNCHANGED <<documentation, i, faultAt>>
       \/ /\ faultsLeft > 0
          /\ faultsLeft' = faultsLeft - 1
          /\ faultAt' = Put(faultAt, account, [kind |-> "session", k |-> r])
          /\ ReturnAccountInfo
          /\ UNCHANGED <<session, region_info, t>>
    /\ UNCHANGED <<envVars, walkVars, acctVars, storeVars, credsOf,
                   discovered, returned>>

\* what a collector hands back for an outcome of its provider call
CollectorResult(outcome) == IF outcome.ok THEN outcome.value ELSE <<>>

\* variant: a collector without its own handler; the fault ends the account
Collect_abort(n) ==
    /\ pc = "collect"
    /\ t = n
    /\ \/ /\ session = "usable"
          /\ region_info' = Put(region_info, ResourceTypes[n],
                                Cloud(account, region, ResourceTypes[n]))
          /\ returned' = Put(returned, <<account, region, ResourceTypes[n]>>,
                             [ok |-> TRUE, value |-> Cloud(account, region, ResourceTypes[n])])
          /\ IF n < Len(ResourceTypes)
             THEN t' = n + 1 /\ pc' = "collect"
             ELSE t' = 0 /\ pc' = "insert_region"
          /\ UNCHANGED <<faultsLeft, documentation, i, account_info>>
       \/ /\ IF session = "unusable" THEN UNCHANGED faultsLeft
             ELSE faultsLeft > 0 /\ faultsLeft' = faultsLeft - 1
          /\ returned' = Put(returned, <<account, region, ResourceTypes[n]>>,
                             [ok |-> FALSE, value |-> <<>>])
          /\ ReturnAccountInfo
          /\ UNCHANGED <<region_info, t, account_info>>
    /\ UNCHANGED <<envVars, walkVars, regions, r, session, storeVars, credsOf,
                   discovered, faultAt>>

\* variant: a failing collector ends the region, which is stored as filled so far
Collect_partial(n) ==
    /\ pc = "collect"
    /\ t = n
    /\ \/ /\ session = "usable"
          /\ region_info' = Put(region_info, ResourceTypes[n],
                                Cloud(account, region, ResourceTypes[n]))
          /\ returned' = Put(returned, <<account, region, ResourceTypes[n]>>,
                             [ok |-> TRUE, value |-> Cloud(account, region, ResourceTypes[n])])
          /\ IF n < Len(ResourceTypes)
             THEN t' = n + 1 /\ pc' = "collect"
             ELSE t' = 0 /\ pc' = "insert_region"
          /\ UNCHANGED faultsLeft
       \/ /\ IF session = "unusable" THEN UNCHANGED faultsLeft
             ELSE faultsLeft > 0 /\ faultsLeft' = faultsLeft - 1
          /\ returned' = Put(returned, <<account, region, ResourceTypes[n]>>,
                             [ok |-> FALSE, value |-> <<>>])
          /\ t' = 0 /\ pc' = "insert_region"
          /\ UNCHANGED region_info
    /\ UNCHANGED <<envVars, walkVars, documentation, i, acctVars, session,
                   storeVars, credsOf, discovered, faultAt>>

Collect(n) ==
    /\ pc = "collect"
    /\ t = n
    /\ \E outcome \in {[ok |-> TRUE, value |-> Cloud(account, region, ResourceTypes[n])],
                       [ok |-> FALSE, value |-> <<>>]} :
          /\ IF session = "unusable"
             THEN ~outcome.ok /\ UNCHANGED faultsLeft
             ELSE \/ outcome.ok /\ UNCHANGED faultsLeft
                  \/ ~outcome.ok /\ faultsLeft > 0 /\ faultsLeft' = faultsLeft - 1
          /\ region_info' = Put(region_info, ResourceTypes[n], CollectorResult(outcome))
          /\ returned' = Put(returned, <<account, region, ResourceTypes[n]>>, outcome)
    /\ IF n < Len(ResourceTypes)
       THEN t' = n + 1 /\ pc' = "collect"
       ELSE t' = 0 /\ pc' = "insert_region"
    /\ UNCHANGED <<envVars, walkVars, documentation, i, acctVars, session,
                   storeVars, credsOf, discovered, faultAt>>

get_vpcs == Collect(1)
get_subnets == Collect(2)
get_security_groups == Collect(3)
get_network_acls == Collect(4)
get_route_tables == Collect(5)
get_vpc_endpoints == Collect(6)
get_vpc_peering_connections == Collect(7)
get_load_balancers == Collect(8)

\* variant: a region without any resource is left out
insert_region_skipEmpty ==
    /\ pc = "insert_region"
    /\ account_info' = IF \A k \in DOMAIN region_info : region_info[k] = <<>>
                       THEN account_info
                       ELSE Put(account_info, region, region_info)
    /\ r' = r + 1
    /\ session' = "none"
    /\ pc' = "region_loop"
    /\ UNCHANGED <<envVars, faultsLeft, walkVars, documentation, i, regions,
                   region_info, t, storeVars, histVars>>

insert_region ==
    /\ pc = "insert_region"
    /\ account_info' = Put(account_info, region, region_info)
    /\ r' = r + 1
    /\ session' = "none"
    /\ pc' = "region_loop"
    /\ UNCHANGED <<envVars, faultsLeft, walkVars, documentation, i, regions,
                   region_info, t, storeVars, histVars>>

store_documentation ==
    /\ pc = "store"
    /\ storeCalls' = storeCalls + 1
    /\ storeArg' = documentation
    /\ \/ pc' = "done" /\ UNCHANGED faultsLeft
       \/ Crash
    /\ UNCHANGED <<envVars, walkVars, documentation, i, acctVars, regionVars,
                   histVars>>

Next ==
    \/ get_root_id
    \/ get_ous
    \/ get_accounts
    \/ main_loop
    \/ get_credentials
    \/ get_available_regions
    \/ region_loop
    \/ open_session
    \/ get_vpcs
    \/ get_subnets
    \/ get_security_groups
    \/ get_network_acls
    \/ get_route_tables
    \/ get_vpc_endpoints
    \/ get_vpc_peering_connections
    \/ get_load_balancers
    \/ insert_region
    \/ store_documentation

Spec == Init /\ [][Next]_vars

\* ---------------------------------------------------------------- helpers
TypeSet == Range(ResourceTypes)
Walked == i >= 1
WalkIds == Range(accounts)
Processing ==
    pc \in {"get_credentials", "get_available_regions", "region_loop",
            "open_session", "collect", "insert_region"}
InCalls(a) == {c \in DOMAIN returned : c[1] = a}
Before(s, k) == {s[j] : j \in 1..(k - 1)}
TopLevelOus == Range(org.ous[RootId])
MembersOf(ou) == Range(org.accts[ou])
Reachable == UNION {MembersOf(ou) : ou \in TopLevelOus}
Index(s, x) == CHOOSE k \in DOMAIN s : s[k] = x
OuOf(a) == CHOOSE ou \in Parents : a \in MembersOf(ou)

\* the mapping currently held for region R of account a, wherever it lives
Held(a, R) ==
    IF a \in DOMAIN documentation /\ R \in DOMAIN documentation[a]
    THEN documentation[a][R]
    ELSE IF Processing /\ account = a /\ R \in DOMAIN account_info
    THEN account_info[R]
    ELSE region_info
IsHeld(a, R) ==
    \/ a \in DOMAIN documentation /\ R \in DOMAIN documentation[a]
    \/ /\ Processing /\ account = a
       /\ \/ R \in DOMAIN account_info
          \/ pc \in {"collect", "insert_region"} /\ region = R

\* C1: an account whose role assumption failed is stored with an empty
\* mapping, and no region enumeration, session or collector call is made
\* for it.
C1_AbsentCredentialsEmptyEntry ==
    \A a \in DOMAIN credsOf :
        credsOf[a] = "absent" =>
            /\ a \in DOMAIN documentation
            /\ DOMAIN documentation[a] = {}
            /\ a \notin DOMAIN discovered
            /\ a \notin DOMAIN faultAt
            /\ InCalls(a) = {}
            /\ ~(Processing /\ account = a)
            /\ storeCalls = 1 => (a \in DOMAIN storeArg /\ DOMAIN storeArg[a] = {})

C1_Witness ==
    /\ pc = "done"
    /\ \E a \in DOMAIN credsOf : credsOf[a] = "absent"
    /\ \E b \in DOMAIN credsOf : credsOf[b] = "ok" /\ InCalls(b) # {}

\* C2: when the collector of one resource type fails in a region, the list
\* kept for that type is empty, the lists of the other types are what their
\* collectors returned, and the region and the account are carried on.
C2_CollectorFaultIsolation ==
    \A c \in DOMAIN returned :
        ~returned[c].ok =>
            /\ IsHeld(c[1], c[2])
            /\ Held(c[1], c[2])[c[3]] = <<>>
            /\ \A d \in InCalls(c[1]) :
                  (d[2] = c[2] /\ d[3] # c[3] /\ returned[d].ok) =>
                      Held(c[1], c[2])[d[3]] = returned[d].value

C2_Witness ==
    /\ pc = "done"
    /\ \E c \in DOMAIN returned :
          /\ ~returned[c].ok
          /\ c[3] = "subnets"
          /\ storeArg[c[1]][c[2]]["subnets"] = <<>>
          /\ storeArg[c[1]][c[2]]["vpcs"] # <<>>
          /\ storeArg[c[1]][c[2]]["load_balancers"] # <<>>
          /\ Cardinality({d \in InCalls(c[1]) : d[2] = c[2] /\ returned[d].ok}) = 7

\* C3: the document handed to store_documentation has exactly the accounts
\* of the organization walk as its top-level keys, one key per account.
C3_OneKeyPerWalkedAccount ==
    storeCalls >= 1 =>
        /\ DOMAIN storeArg = WalkIds
        /\ Cardinality(DOMAIN storeArg) = Len(accounts)

C3_Witness ==
    /\ storeCalls = 1
    /\ Len(accounts) = 2
    /\ \E a \in WalkIds : credsOf[a] = "absent"
    /\ \E b \in WalkIds : b \in DOMAIN faultAt

\* C4 as stated: every discovered region of an account with credentials is
\* a key under that account in the stored document.
C4_Original ==
    storeCalls >= 1 =>
        \A a \in WalkIds :
            /\ a \in DOMAIN storeArg
            /\ credsOf[a] = "absent" => DOMAIN storeArg[a] = {}
            /\ (credsOf[a] = "ok" /\ a \in DOMAIN discovered) =>
                   Range(discovered[a]) \subseteq DOMAIN storeArg[a]

\* C4 amended: every account is a key; an account without credentials maps
\* to the empty mapping; an account with credentials holds every discovered
\* region, all-failed regions included, unless a session fault at the k-th
\* region cut it down to the regions before k or region enumeration failed.
C4_RegionsPresentUpToFault ==
    storeCalls >= 1 =>
        \A a \in WalkIds :
            /\ a \in DOMAIN storeArg
            /\ credsOf[a] = "absent" => DOMAIN storeArg[a] = {}
            /\ (credsOf[a] = "ok" /\ a \notin DOMAIN faultAt) =>
                   /\ DOMAIN storeArg[a] = Range(discovered[a])
                   /\ \A R \in DOMAIN storeArg[a] :
                         (\A T \in TypeSet : ~returned[<<a, R, T>>].ok) =>
                             (\A T \in TypeSet : storeArg[a][R][T] = <<>>)
            /\ (a \in DOMAIN faultAt /\ faultAt[a].kind = "session") =>
                   DOMAIN storeArg[a] = Before(discovered[a], faultAt[a].k)
            /\ (a \in DOMAIN faultAt /\ faultAt[a].kind = "regions") =>
                   DOMAIN storeArg[a] = {}

C4_Witness ==
    /\ storeCalls = 1
    /\ \E a \in WalkIds :
          /\ credsOf[a] = "ok"
          /\ a \notin DOMAIN faultAt
          /\ Len(discovered[a]) = 2
          /\ DOMAIN storeArg[a] = Range(discovered[a])
          /\ \A T \in TypeSet : ~returned[<<a, discovered[a][1], T>>].ok
          /\ \A T \in TypeSet : storeArg[a][discovered[a][1]][T] = <<>>

\* C5: store_documentation is called at most once, after the orchestrator
\* has returned for every account of the walk, with the complete aggregate.
C5_StoreOnceAfterAllAccounts ==
    /\ storeCalls <= 1
    /\ storeCalls = 1 =>
          /\ pc \in {"done", "crashed"}
          /\ i = Len(accounts) + 1
          /\ WalkIds \subseteq DOMAIN credsOf
          /\ WalkIds \subseteq DOMAIN documentation
          /\ storeArg = documentation
    /\ (Processing \/ pc \in {"get_root_id", "get_ous", "get_accounts",
                              "main_loop", "store"}) => storeCalls = 0

C5_Witness ==
    /\ storeCalls = 1
    /\ pc = "done"
    /\ Len(accounts) = 2
    /\ \A a \in WalkIds : credsOf[a] = "ok" /\ DOMAIN storeArg[a] # {}

\* C6: a fault of the region enumerator is caught nowhere and terminates the
\* run, so store_documentation is never reached in a run in which region
\* enumeration failed.
C6_Original ==
    (\E a \in DOMAIN faultAt : faultAt[a].kind = "regions") =>
        (storeCalls = 0 /\ pc # "done")

\* What the code does instead for a fault of the region enumerator (the call
\* of line 33 sits inside the try of line 28): the handler of line 50
\* catches it, the account gets the empty mapping, main goes on with the
\* remaining accounts, and the run can only end after store_documentation
\* was called.
C6_RegionFaultCaught ==
    \A a \in DOMAIN faultAt :
        faultAt[a].kind = "regions" =>
            /\ a \in DOMAIN documentation
            /\ DOMAIN documentation[a] = {}
            /\ InCalls(a) = {}
            /\ IF pc \in {"done", "crashed"}
               THEN /\ storeCalls = 1
                    /\ WalkIds \subseteq DOMAIN credsOf
                    /\ DOMAIN storeArg = WalkIds
                    /\ DOMAIN storeArg[a] = {}
               ELSE ENABLED Next

C6_Witness ==
    /\ pc = "done"
    /\ storeCalls = 1
    /\ \E a \in DOMAIN faultAt :
          /\ faultAt[a].kind = "regions"
          /\ DOMAIN storeArg[a] = {}
          /\ accounts[1] = a /\ Len(accounts) = 2
          /\ DOMAIN storeArg[accounts[2]] # {}

\* C7: a fault when opening the session of the k-th region does not crash
\* the run: the account keeps exactly the regions before k, every remaining
\* account is processed, and the run can only end after store_documentation
\* was called.
C7_SessionFaultDegrades ==
    \A a \in DOMAIN faultAt :
        faultAt[a].kind = "session" =>
            /\ a \in DOMAIN documentation
            /\ DOMAIN documentation[a] = Before(discovered[a], faultAt[a].k)
            /\ \A R \in DOMAIN documentation[a] : DOMAIN documentation[a][R] = TypeSet
            /\ IF pc \in {"done", "crashed"}
               THEN /\ storeCalls = 1
                    /\ WalkIds \subseteq DOMAIN credsOf
                    /\ DOMAIN storeArg = WalkIds
                    /\ storeArg[a] = documentation[a]
               ELSE ENABLED Next

C7_Witness ==
    /\ pc = "done"
    /\ storeCalls = 1
    /\ Len(accounts) = 2
    /\ accounts[1] \in DOMAIN faultAt
    /\ faultAt[accounts[1]] = [kind |-> "session", k |-> 2]
    /\ Cardinality(DOMAIN storeArg[accounts[1]]) = 1
    /\ Cardinality(DOMAIN storeArg[accounts[2]]) = 2

\* C8: with no organizational unit directly under the root the accounts
\* list is empty, no account is processed, and the empty document is
\* stored once.
C8_NoOusEmptyDocument ==
    (org.ous[RootId] = <<>> /\ Walked) =>
        /\ accounts = <<>>
        /\ credsOf = EmptyMap
        /\ documentation = EmptyMap
        /\ pc \in {"main_loop", "store", "done", "crashed"}
        /\ pc \in {"done", "crashed"} => (storeCalls = 1 /\ storeArg = EmptyMap)

C8_Witness ==
    /\ org.ous[RootId] = <<>>
    /\ MembersOf(RootId) # {}
    /\ pc = "done"
    /\ storeCalls = 1
    /\ storeArg = EmptyMap

\* C9: the walked accounts are the members of the units directly below the
\* root, unit after unit in listing order; accounts directly under the root
\* or in a nested unit are never walked and never become a key.
C9_WalkOneLevelInOrder ==
    Walked =>
        /\ WalkIds = Reachable
        /\ \A p, q \in DOMAIN accounts :
              p < q =>
                  \/ Index(org.ous[RootId], OuOf(accounts[p])) < Index(org.ous[RootId], OuOf(accounts[q]))
                  \/ /\ OuOf(accounts[p]) = OuOf(accounts[q])
                     /\ Index(org.accts[OuOf(accounts[p])], accounts[p])
                          < Index(org.accts[OuOf(accounts[q])], accounts[q])
        /\ \A a \in Accounts :
              OuOf(a) \notin TopLevelOus =>
                  /\ a \notin WalkIds
                  /\ a \notin DOMAIN documentation
                  /\ a \notin DOMAIN storeArg
                  /\ a \notin DOMAIN credsOf

C9_Witness ==
    /\ pc = "done"
    /\ org.ous[RootId] = <<"ou-2", "ou-1">>
    /\ org.accts["ou-2"] = <<"222">>
    /\ org.accts["r-root"] = <<"111">>
    /\ accounts = <<"222">>
    /\ DOMAIN storeArg = {"222"}

\* C10: a region entry always has exactly the 8 resource-type keys; it is
\* inserted only after all 8 collectors have returned.
C10_RegionEntriesComplete ==
    /\ \A a \in DOMAIN documentation : \A R \in DOMAIN documentation[a] :
          /\ DOMAIN documentation[a][R] = TypeSet
          /\ \A T \in TypeSet : <<a, R, T>> \in DOMAIN returned
    /\ \A a \in DOMAIN storeArg : \A R \in DOMAIN storeArg[a] :
          DOMAIN storeArg[a][R] = TypeSet
    /\ Processing =>
          \A R \in DOMAIN account_info :
              /\ DOMAIN account_info[R] = TypeSet
              /\ \A T \in TypeSet : <<account, R, T>> \in DOMAIN returned
    /\ Cardinality(TypeSet) = 8

C10_Witness ==
    /\ pc = "done"
    /\ \E a \in DOMAIN faultAt :
          /\ faultAt[a] = [kind |-> "session", k |-> 2]
          /\ \E c \in InCalls(a) : ~returned[c].ok
          /\ \E R \in DOMAIN storeArg[a] : DOMAIN storeArg[a][R] = TypeSet
====
